---- MODULE Spec2Model ----
(***************************************************************************)
(* Model of the credential pool (services/key_manager.py, KeyManager) and  *)
(* of the gateway client that uses it (services/bytez_client.py,           *)
(* BytezClient).                                                           *)
(*                                                                         *)
(* Python list indices are 0-based: current_key_index keeps the source's   *)
(* 0-based value and KeyAt reads keys[i] as the (i+1)-th element of the    *)
(* TLA+ sequence.  Timestamps of the diagnostic events are left out.       *)
(***************************************************************************)
EXTENDS Integers, Sequences, FiniteSets, TLC

(* ------------------------------ bounds -------------------------------- *)

\* longest credential list loaded from the environment
MaxKeys == 3
\* how far past len(keys) the pool driver lets rotate_key push the index
MaxOverrun == 1
\* cap on the usage / error counters under the pool driver
MaxCount == 1
\* number of chat_completions calls that can be running at a time
NumTasks == 2
\* number of chat_completions calls made in all
MaxCalls == 2
\* most words in a query text
MaxWords == 3
\* largest limit_rows passed to run_sql
MaxLimit == 2
\* most rows the engine returns for a query
MaxRows == 3
\* deepest nesting of a node in the syntax tree of a statement
MaxDepth == 2
\* most statements in the code given to run_python
MaxBody == 1
\* the most lines a streamed response body is modelled with
MaxLines == 3

(* --------------------------- value domains ---------------------------- *)

\* the i-th distinct secret string found in the environment
KeyName(i) == "sk-" \o ToString(i)

\* HTTP status codes the model API answers with: 200, another 2xx, a 4xx
\* that is no credential problem, 401, 429 and a 5xx
Statuses == {200, 204, 404, 401, 429, 503}

Tasks == 1..NumTasks

VARIABLES
    km,           \* the KeyManager singleton
    ret,          \* what the last direct KeyManager call returned or raised
    client,       \* BytezClient.client: the key in its header, open or closed
    pc,           \* where each chat_completions call stands
    retry_count,  \* local retry_count of each call
    max_retries,  \* local max_retries of each call
    sent,         \* the keys each call sent its requests with, in order
    log,          \* the status codes each call received, in order
    result,       \* how each call ended
    calls,        \* chat_completions calls started so far
    ppc,          \* where stream_chat is suspended
    agent_text,   \* the text the last _run_agent call returned
    events,       \* the events the caller of /chat/stream has received
    data_dna,     \* stream_chat's data_dna
    query_type,   \* stream_chat's query_type
    sql_result,   \* stream_chat's sql_result
    python_result,\* stream_chat's python_result
    response_obj, \* stream_chat's response_obj
    invoked,      \* the agents _run_agent was called for, in order
    sandbox,      \* the sandbox runs made, in order
    stored,       \* the writes made to the durable store, in order
    faults,       \* what went wrong in this request
    sqlbox,       \* the run_sql call: its arguments, its steps, its outcome
    pybox,        \* the run_python call: its caller, its code, its outcome
    req,          \* the /chat/stream requests running on the event loop
    thread,       \* the request whose synchronous call holds the event
                  \* loop's thread, 0 when the loop is free
    insights,     \* data_dna.accumulated_insights of the session, stored
    route,        \* the chat_stream call: where it stands, what it answered
    stream        \* the _stream_response generator: its lines, its position,
                  \* the chunks it has yielded

loopVars == <<req, thread, insights>>

edgeVars == <<route, stream>>

boxVars == <<sqlbox, pybox, loopVars, edgeVars>>

pipeVars == <<ppc, agent_text, events, data_dna, query_type, sql_result, python_result,
              response_obj, invoked, sandbox, stored, faults>>

vars == <<km, ret, client, pc, retry_count, max_retries, sent, log, result,
          calls, pipeVars, boxVars>>

clientVars == <<client, pc, retry_count, max_retries, sent, log, result,
                calls>>

gatewayVars == <<km, ret, clientVars>>

(* ----------------------------- KeyManager ----------------------------- *)

\* keys[i] with Python's 0-based index
KeyAt(m, i) == m.keys[i + 1]

NoEvent == [type |-> "None"]

\* the greatest of a non-empty set of numbers
Max(S) == CHOOSE x \in S : \A y \in S : y <= x

\* every non-empty credential list of at most MaxKeys secrets, a secret
\* may occur more than once; the secrets are opaque, so they are numbered
\* in the order of their first occurrence
KeyLists ==
    UNION {{[i \in 1..n |-> KeyName(f[i])] :
              f \in {g \in [1..n -> 1..n] :
                        /\ g[1] = 1
                        /\ \A i \in 2..n :
                              g[i] <= Max({g[j] : j \in 1..(i - 1)}) + 1}}
           : n \in 1..MaxKeys}

\* KeyManager.__init__ / _load_keys for a loaded list ks
NewKeyManager(ks) ==
    [keys |-> ks,
     current_key_index |-> 0,
     failed_keys |-> {},
     usage_count |-> [k \in {ks[i] : i \in 1..Len(ks)} |-> 0],
     error_count |-> [k \in {ks[i] : i \in 1..Len(ks)} |-> 0],
     last_rotation_event |-> NoEvent]

\* get_current_key without the test of failed_keys
get_current_key_NoFailedTest(m) ==
    IF m.current_key_index >= Len(m.keys)
    THEN [raised |-> "RuntimeError", msg |-> "All API keys exhausted"]
    ELSE [raised |-> "None", value |-> KeyAt(m, m.current_key_index)]

\* get_current_key: the key, or the RuntimeError it raises
get_current_key(m) ==
    IF m.current_key_index >= Len(m.keys)
    THEN [raised |-> "RuntimeError", msg |-> "All API keys exhausted"]
    ELSE IF KeyAt(m, m.current_key_index) \in m.failed_keys
         THEN [raised |-> "RuntimeError", msg |-> "Current key is marked as failed"]
         ELSE [raised |-> "None", value |-> KeyAt(m, m.current_key_index)]

\* keys[current_key_index] raises IndexError past the end of the list
IndexInRange(m) == m.current_key_index < Len(m.keys)

\* mark_current_key_failed, for an index inside the list
mark_current_key_failed(m, reason) ==
    LET current_key == KeyAt(m, m.current_key_index)
        errs == [m.error_count EXCEPT ![current_key] = @ + 1]
    IN [m EXCEPT
          !.failed_keys = @ \cup {current_key},
          !.error_count = errs,
          !.last_rotation_event =
              [type |-> "key_failed",
               key_index |-> m.current_key_index,
               reason |-> reason,
               usage_count |-> m.usage_count[current_key],
               error_count |-> errs[current_key]]]

\* rotate_key's loop with the test of failed_keys left out
SkipFailed_NoSkip(m, i) == i

\* the while loop of rotate_key: first index from i on that is past the
\* end or holds a key that is not failed
RECURSIVE SkipFailed(_, _)
SkipFailed(m, i) ==
    IF i < Len(m.keys)
    THEN IF KeyAt(m, i) \notin m.failed_keys THEN i ELSE SkipFailed(m, i + 1)
    ELSE i

\* rotate_key that starts over from the first key once past the end
rotate_key_Restart(m) ==
    LET start_index == m.current_key_index
        stop == IF start_index >= Len(m.keys)
                THEN SkipFailed(m, 0)
                ELSE SkipFailed(m, start_index + 1)
    IN IF stop < Len(m.keys)
       THEN [km |-> [m EXCEPT
                       !.current_key_index = stop,
                       !.last_rotation_event =
                           [type |-> "key_rotated",
                            from_index |-> start_index,
                            to_index |-> stop]],
             value |-> TRUE]
       ELSE [km |-> [m EXCEPT
                       !.current_key_index = stop,
                       !.last_rotation_event =
                           [type |-> "all_keys_exhausted",
                            total_keys |-> Len(m.keys)]],
             value |-> FALSE]

\* rotate_key: the new KeyManager state and the returned boolean
rotate_key(m) ==
    LET start_index == m.current_key_index
        stop == SkipFailed(m, start_index + 1)
    IN IF stop < Len(m.keys)
       THEN [km |-> [m EXCEPT
                       !.current_key_index = stop,
                       !.last_rotation_event =
                           [type |-> "key_rotated",
                            from_index |-> start_index,
                            to_index |-> stop]],
             value |-> TRUE]
       ELSE [km |-> [m EXCEPT
                       !.current_key_index = stop,
                       !.last_rotation_event =
                           [type |-> "all_keys_exhausted",
                            total_keys |-> Len(m.keys)]],
             value |-> FALSE]

\* record_success that counts the success for the first key of the list
record_success_FirstKey(m) ==
    [m EXCEPT !.usage_count[KeyAt(m, 0)] = @ + 1]

\* record_success, for an index inside the list
record_success(m) ==
    [m EXCEPT !.usage_count[KeyAt(m, m.current_key_index)] = @ + 1]

\* get_and_clear_last_event
get_and_clear_last_event(m) ==
    [km |-> [m EXCEPT !.last_rotation_event = NoEvent],
     value |-> m.last_rotation_event]

(* ----------------------------- BytezClient ---------------------------- *)

\* BytezClient._create_client on a KeyManager whose current key is usable
NewClient(m) == [key |-> get_current_key(m).value, closed |-> FALSE]

\* outcomes of a chat_completions call
NoResult == [raised |-> "None", msg |-> "pending"]
Returned == [raised |-> "None", msg |-> "response.json()"]
Raised(type, msg) == [raised |-> type, msg |-> msg]

\* _handle_error_and_retry that takes every 4xx and 5xx for a key failure
IsCredentialFailure_AnyError(status_code) == status_code >= 400

\* the status codes _handle_error_and_retry marks the key failed for
IsCredentialFailure(status_code) ==
    \/ status_code \in {401, 403}
    \/ status_code = 429
    \/ status_code >= 500

\* the reason string _handle_error_and_retry passes to the pool
Reason(status_code) ==
    IF status_code \in {401, 403}
    THEN ToString(status_code) \o " Unauthorized/Forbidden"
    ELSE IF status_code = 429
         THEN "429 Rate Limited"
         ELSE ToString(status_code) \o " Server Error"

(* ------------------------------- Init --------------------------------- *)

Init ==
    /\ \E ks \in KeyLists :
          /\ km = NewKeyManager(ks)
          /\ client = NewClient(NewKeyManager(ks))
    /\ ret = [op |-> "None"]
    /\ pc = [t \in Tasks |-> "idle"]
    /\ retry_count = [t \in Tasks |-> 0]
    /\ max_retries = [t \in Tasks |-> 0]
    /\ sent = [t \in Tasks |-> <<>>]
    /\ log = [t \in Tasks |-> <<>>]
    /\ result = [t \in Tasks |-> NoResult]
    /\ calls = 0
    /\ ppc = "init"
    /\ agent_text = [json |-> "None"]
    /\ events = <<>>
    /\ data_dna = "None"
    /\ query_type = "None"
    /\ sql_result = "None"
    /\ python_result = "None"
    /\ response_obj = "None"
    /\ invoked = <<>>
    /\ sandbox = <<>>
    /\ stored = <<>>
    /\ faults = {}
    /\ sqlbox = [pc |-> "idle"]
    /\ pybox = [pc |-> "idle"]
    /\ req = [r \in Tasks |->
                [pc |-> "new", closed |-> FALSE, box |-> "None", child |-> "None",
                 loaded |-> <<>>, finding |-> FALSE]]
    /\ thread = 0
    /\ insights = <<0>>
    /\ route = [pc |-> "new"]
    /\ stream = [pc |-> "new"]

(* ------------- the pool driven directly, one call at a time ----------- *)

Reasons == {Reason(401), Reason(429)}

CallGetCurrentKey ==
    /\ ret' = [op |-> "get_current_key", out |-> get_current_key(km)]
    /\ UNCHANGED <<km, clientVars, pipeVars, boxVars>>

CallMarkFailed ==
    /\ \E reason \in Reasons :
          IF IndexInRange(km)
          THEN /\ km.error_count[KeyAt(km, km.current_key_index)] < MaxCount
               /\ km' = mark_current_key_failed(km, reason)
               /\ ret' = [op |-> "mark_current_key_failed", raised |-> "None"]
          ELSE /\ km' = km
               /\ ret' = [op |-> "mark_current_key_failed", raised |-> "IndexError"]
    /\ UNCHANGED <<clientVars, pipeVars, boxVars>>

CallRotate ==
    /\ km.current_key_index < Len(km.keys) + MaxOverrun
    /\ km' = rotate_key(km).km
    /\ ret' = [op |-> "rotate_key", value |-> rotate_key(km).value,
               from |-> km.current_key_index]
    /\ UNCHANGED <<clientVars, pipeVars, boxVars>>

CallRecordSuccess ==
    /\ IF IndexInRange(km)
       THEN /\ km.usage_count[KeyAt(km, km.current_key_index)] < MaxCount
            /\ km' = record_success(km)
            /\ ret' = [op |-> "record_success", raised |-> "None"]
       ELSE /\ km' = km
            /\ ret' = [op |-> "record_success", raised |-> "IndexError"]
    /\ UNCHANGED <<clientVars, pipeVars, boxVars>>

CallGetAndClear ==
    /\ km' = get_and_clear_last_event(km).km
    /\ ret' = [op |-> "get_and_clear_last_event",
               value |-> get_and_clear_last_event(km).value]
    /\ UNCHANGED <<clientVars, pipeVars, boxVars>>

NextPool ==
    \/ CallGetCurrentKey
    \/ CallMarkFailed
    \/ CallRotate
    \/ CallRecordSuccess
    \/ CallGetAndClear

SpecPool == Init /\ [][NextPool]_vars

(* ------------------- concurrent chat_completions calls ---------------- *)

\* self.client.post: a closed httpx client raises RuntimeError before
\* anything is sent; an open one sends the request with the key of its
\* header and the call waits for the response
Post(t, c, sentSoFar) ==
    IF c.closed
    THEN /\ pc' = [pc EXCEPT ![t] = "done"]
         /\ result' = [result EXCEPT ![t] =
                Raised("RuntimeError", "Cannot send a request, as the client has been closed")]
         /\ sent' = [sent EXCEPT ![t] = sentSoFar]
    ELSE /\ pc' = [pc EXCEPT ![t] = "awaiting_post"]
         /\ result' = [result EXCEPT ![t] = NoResult]
         /\ sent' = [sent EXCEPT ![t] = Append(sentSoFar, c.key)]

\* the retry loop with one round too few
LoopTop_OneLess(t, rc, mr, c, sentSoFar) ==
    IF rc < mr - 1
    THEN Post(t, c, sentSoFar)
    ELSE /\ pc' = [pc EXCEPT ![t] = "done"]
         /\ result' = [result EXCEPT ![t] =
                Raised("RuntimeError", "All API keys exhausted after retries")]
         /\ sent' = [sent EXCEPT ![t] = sentSoFar]

\* the head of "while retry_count < max_retries" and what follows the loop
LoopTop(t, rc, mr, c, sentSoFar) ==
    IF rc < mr
    THEN Post(t, c, sentSoFar)
    ELSE /\ pc' = [pc EXCEPT ![t] = "done"]
         /\ result' = [result EXCEPT ![t] =
                Raised("RuntimeError", "All API keys exhausted after retries")]
         /\ sent' = [sent EXCEPT ![t] = sentSoFar]

\* chat_completions from its entry to its first await; a new call runs as
\* the first task that is not in the middle of a call
StartCall(t) ==
    /\ pc[t] \in {"idle", "done"}
    /\ \A u \in Tasks : u < t => pc[u] \notin {"idle", "done"}
    /\ calls < MaxCalls
    /\ calls' = calls + 1
    /\ max_retries' = [max_retries EXCEPT ![t] = Len(km.keys)]
    /\ retry_count' = [retry_count EXCEPT ![t] = 0]
    /\ log' = [log EXCEPT ![t] = <<>>]
    /\ LoopTop(t, 0, Len(km.keys), client, <<>>)
    /\ UNCHANGED <<km, ret, client, pipeVars, boxVars>>

\* the response arrives with status 200: record_success, then return
ResponseOk(t) ==
    /\ pc[t] = "awaiting_post"
    /\ log' = [log EXCEPT ![t] = Append(@, 200)]
    /\ pc' = [pc EXCEPT ![t] = "done"]
    /\ IF IndexInRange(km)
       THEN /\ km' = record_success(km)
            /\ result' = [result EXCEPT ![t] = Returned]
       ELSE /\ km' = km
            /\ result' = [result EXCEPT ![t] =
                   Raised("IndexError", "list index out of range")]
    /\ UNCHANGED <<ret, client, retry_count, max_retries, sent, calls, pipeVars, boxVars>>

\* the response arrives with another status: _handle_error_and_retry up
\* to the await of aclose in _refresh_client, or up to the raise
ResponseError(t, status_code) ==
    /\ pc[t] = "awaiting_post"
    /\ status_code # 200
    /\ log' = [log EXCEPT ![t] = Append(@, status_code)]
    /\ IF IsCredentialFailure(status_code)
       THEN IF IndexInRange(km)
            THEN LET marked == mark_current_key_failed(km, Reason(status_code))
                     rotated == rotate_key(marked)
                 IN /\ km' = rotated.km
                    /\ IF rotated.value
                       THEN /\ pc' = [pc EXCEPT ![t] = "awaiting_aclose"]
                            /\ client' = [client EXCEPT !.closed = TRUE]
                            /\ result' = result
                       ELSE /\ pc' = [pc EXCEPT ![t] = "done"]
                            /\ client' = client
                            /\ result' = [result EXCEPT ![t] =
                                   Raised("RuntimeError", "Bytez API error")]
            ELSE /\ km' = km
                 /\ pc' = [pc EXCEPT ![t] = "done"]
                 /\ client' = client
                 /\ result' = [result EXCEPT ![t] =
                        Raised("IndexError", "list index out of range")]
       ELSE /\ km' = km
            /\ pc' = [pc EXCEPT ![t] = "done"]
            /\ client' = client
            /\ result' = [result EXCEPT ![t] =
                   Raised("RuntimeError", "Bytez API error")]
    /\ UNCHANGED <<ret, retry_count, max_retries, sent, calls, pipeVars, boxVars>>

\* a failed request handled like a 401: the key is marked and the pool
\* rotated before the call fails
RequestFailed_Rotates(t) ==
    /\ pc[t] = "awaiting_post"
    /\ pc' = [pc EXCEPT ![t] = "done"]
    /\ result' = [result EXCEPT ![t] =
           Raised("RuntimeError", "Bytez API request failed")]
    /\ km' = IF IndexInRange(km)
             THEN rotate_key(mark_current_key_failed(km, Reason(401))).km
             ELSE km
    /\ UNCHANGED <<ret, client, retry_count, max_retries, sent, log, calls,
                   pipeVars, boxVars>>

\* the request fails without a response: httpx.RequestError is caught and
\* re-raised as RuntimeError
RequestFailed(t) ==
    /\ pc[t] = "awaiting_post"
    /\ pc' = [pc EXCEPT ![t] = "done"]
    /\ result' = [result EXCEPT ![t] =
           Raised("RuntimeError", "Bytez API request failed")]
    /\ UNCHANGED <<km, ret, client, retry_count, max_retries, sent, log, calls,
                   pipeVars, boxVars>>

\* aclose is over: _refresh_client builds the new client from the pool's
\* current key, then retry_count += 1 and the loop goes round
Refreshed(t) ==
    /\ pc[t] = "awaiting_aclose"
    /\ IF get_current_key(km).raised = "None"
       THEN /\ client' = NewClient(km)
            /\ retry_count' = [retry_count EXCEPT ![t] = @ + 1]
            /\ LoopTop(t, retry_count[t] + 1, max_retries[t], NewClient(km), sent[t])
       ELSE /\ client' = client
            /\ retry_count' = retry_count
            /\ pc' = [pc EXCEPT ![t] = "done"]
            /\ result' = [result EXCEPT ![t] =
                   Raised("RuntimeError", get_current_key(km).msg)]
            /\ sent' = sent
    /\ UNCHANGED <<km, ret, max_retries, log, calls, pipeVars, boxVars>>

Next ==
    \E t \in Tasks :
        \/ StartCall(t)
        \/ ResponseOk(t)
        \/ \E status_code \in Statuses : ResponseError(t, status_code)
        \/ RequestFailed(t)
        \/ Refreshed(t)

Spec == Init /\ [][Next]_vars

(* ------------------- the pipeline: Orchestrator.stream_chat ----------- *)
(* One request.  An action runs stream_chat from one suspension point (a   *)
(* yield, or the await of a gateway call) to the next; run_sql, run_python *)
(* and the store calls are synchronous and run inside the action.  A text  *)
(* returned by an agent is modelled by what the code looks at in it.       *)

\* every status event built with the stage of the first one
StatusEvent_Loading(stage) == [type |-> "status", stage |-> "loading"]

StatusEvent(stage) == [type |-> "status", stage |-> stage]
ResultEvent(type) == [type |-> type]
ErrorEvent(message) == [type |-> "error", message |-> message]

\* the classification values the orchestrator prompt asks for, and one
\* value outside them
Classifications == {"SQL_ONLY", "PY_ONLY", "SQL_THEN_PY", "EXPLAIN_ONLY", "OTHER"}

\* what _run_agent can return for the orchestrator agent: a null content,
\* text that is no JSON, JSON that is no object, a JSON object without a
\* classification field, a JSON object with one
ClassifierTexts ==
    {[json |-> "None"], [json |-> "invalid"], [json |-> "array"],
     [json |-> "object", classification |-> "absent"]}
    \cup {[json |-> "object", classification |-> c] : c \in Classifications}

\* "Parse classification": json.loads, the JSONDecodeError default, and
\* classification_obj.get("classification", "EXPLAIN_ONLY")
ParseClassification(text) ==
    IF text.json = "None"
    THEN [raised |-> "TypeError"]
    ELSE IF text.json = "invalid"
         THEN [raised |-> "None", query_type |-> "EXPLAIN_ONLY"]
         ELSE IF text.json # "object"
              THEN [raised |-> "AttributeError"]
              ELSE IF text.classification = "absent"
                   THEN [raised |-> "None", query_type |-> "EXPLAIN_ONLY"]
                   ELSE [raised |-> "None", query_type |-> text.classification]

\* what _run_agent can return for the sql agent: a null content, a ```sql
\* block with text, a ```sql block of blanks, a plain ``` block that starts
\* with SELECT, a plain ``` block without any SELECT, a SELECT outside any
\* block, text with neither
SqlTexts ==
    {[json |-> "None"]} \cup
    {[json |-> "invalid", shape |-> k] :
        k \in {"sql_block", "blank_sql_block", "select_block", "other_block",
               "bare_select", "prose"}}

\* _extract_sql: "query" for a non-empty query, "" for an empty string,
\* "None" for None
extract_sql(response) ==
    IF response.json = "None" THEN "TypeError"
    ELSE IF response.shape = "sql_block" THEN "query"
    ELSE IF response.shape = "blank_sql_block" THEN ""
    ELSE IF response.shape = "select_block" THEN "query"
    ELSE IF response.shape = "bare_select" THEN "query"
    ELSE "None"

\* what _run_agent can return for the python agent
PythonTexts ==
    {[json |-> "None"]} \cup
    {[json |-> "invalid", shape |-> k] :
        k \in {"python_block", "blank_python_block", "plain_block", "prose"}}

\* _extract_python: "code", "" or "None"
extract_python(response) ==
    IF response.json = "None" THEN "TypeError"
    ELSE IF response.shape = "python_block" THEN "code"
    ELSE IF response.shape = "blank_python_block" THEN ""
    ELSE IF response.shape = "plain_block" THEN "code"
    ELSE "None"

\* what _run_agent can return for the composer: a null content, text that
\* is no JSON, a JSON object with or without a finding, a JSON array, a
\* JSON number
ComposerTexts ==
    {[json |-> "None"], [json |-> "invalid"], [json |-> "array"],
     [json |-> "number"],
     [json |-> "object", finding |-> TRUE],
     [json |-> "object", finding |-> FALSE]}

\* "if query_type in ("SQL_ONLY", "SQL_THEN_PY")" with "not EXPLAIN_ONLY"
SqlGuard_NotExplain(qt) == qt # "EXPLAIN_ONLY"

\* if query_type in ("SQL_ONLY", "SQL_THEN_PY")
SqlGuard(qt) == qt \in {"SQL_ONLY", "SQL_THEN_PY"}

\* the guard of the Python stage without "and sql_result"
PythonGuard_NoResultTest(qt, sr) == qt \in {"PY_ONLY", "SQL_THEN_PY"}

\* if query_type in ("PY_ONLY", "SQL_THEN_PY") and sql_result
PythonGuard(qt, sr) == qt \in {"PY_ONLY", "SQL_THEN_PY"} /\ sr # "None"

\* a yield: the event reaches the caller and stream_chat is suspended
Yield(event, at) ==
    /\ events' = Append(events, event)
    /\ ppc' = at

\* a top-level except that swallows its exception
TopError_Silent(cause) ==
    /\ events' = events
    /\ ppc' = "y_error"
    /\ faults' = faults \cup {cause}

\* except Exception at the top level: one error event
TopError(cause) ==
    /\ Yield(ErrorEvent("Orchestration failed"), "y_error")
    /\ faults' = faults \cup {cause}

\* event_generator when json.dumps cannot encode an event: the except
\* clause builds its "Stream error" event from {{...}}, a set display that
\* holds a dict, which raises TypeError (unhashable type), so the handler
\* fails too and the stream ends with neither the event nor an error event
StreamError(cause) ==
    /\ events' = events
    /\ ppc' = "done"
    /\ faults' = faults \cup {cause}

\* a SQL stage whose error event ends the stream
AfterSqlStage_Fatal(qt, sr) ==
    IF ppc = "y_sql_error"
    THEN /\ events' = events
         /\ ppc' = "y_error"
    ELSE IF PythonGuard(qt, sr)
         THEN Yield(StatusEvent("python_execution"), "y_python_execution")
         ELSE Yield(StatusEvent("composition"), "y_composition")

\* what follows the SQL stage: the status of the Python stage if its guard
\* holds, the status of the composition otherwise
AfterSqlStage(qt, sr) ==
    IF PythonGuard(qt, sr)
    THEN Yield(StatusEvent("python_execution"), "y_python_execution")
    ELSE Yield(StatusEvent("composition"), "y_composition")

\* stream_chat is started: the first status event
Begin ==
    /\ ppc = "init"
    /\ Yield(StatusEvent("loading"), "y_loading")
    /\ UNCHANGED <<agent_text, data_dna, query_type, sql_result, python_result,
                   response_obj, invoked, sandbox, stored, faults>>
    /\ UNCHANGED <<gatewayVars, boxVars>>

\* "Load session and Data DNA"
LoadProfile ==
    /\ ppc = "y_loading"
    /\ \E outcome \in {"found", "null_data_dna", "not_found", "raise"} :
          IF outcome \in {"found", "null_data_dna"}
          THEN /\ data_dna' = IF outcome = "found" THEN "dict" ELSE "null"
               /\ Yield(StatusEvent("orchestrating"), "y_orchestrating")
               /\ faults' = faults
          ELSE /\ data_dna' = data_dna
               /\ TopError(IF outcome = "not_found"
                           THEN "session_not_found" ELSE "store_read_failed")
    /\ UNCHANGED <<agent_text, query_type, sql_result, python_result,
                   response_obj, invoked, sandbox, stored>>
    /\ UNCHANGED <<gatewayVars, boxVars>>

\* the messages of an agent are built from data_dna (data_dna.get raises
\* on None), then _run_agent is awaited
CallAgent(agent_id, at) ==
    IF data_dna = "null"
    THEN /\ TopError("null_data_dna")
         /\ invoked' = invoked
    ELSE /\ invoked' = Append(invoked, agent_id)
         /\ ppc' = at
         /\ UNCHANGED <<events, faults>>

CallOrchestrator ==
    /\ ppc = "y_orchestrating"
    /\ CallAgent("orchestrator", "a_orchestrator")
    /\ UNCHANGED <<agent_text, data_dna, query_type, sql_result, python_result,
                   response_obj, sandbox, stored>>
    /\ UNCHANGED <<gatewayVars, boxVars>>

\* the classifier call is over: the orchestrator_result event
OrchestratorReturns ==
    /\ ppc = "a_orchestrator"
    /\ \E outcome \in {[json |-> "raise"]} \cup ClassifierTexts :
          IF outcome.json = "raise"
          THEN /\ TopError("orchestrator_failed")
               /\ agent_text' = agent_text
          ELSE /\ agent_text' = outcome
               /\ Yield(ResultEvent("orchestrator_result"), "y_orchestrator_result")
               /\ faults' = faults \cup
                    (IF \/ outcome.json \in {"invalid", "array"}
                        \/ (outcome.json = "object" /\ outcome.classification = "absent")
                     THEN {"malformed_classification"} ELSE {})
    /\ UNCHANGED <<data_dna, query_type, sql_result, python_result,
                   response_obj, invoked, sandbox, stored>>
    /\ UNCHANGED <<gatewayVars, boxVars>>

\* "Parse classification" and the guards of the two stages
Route ==
    /\ ppc = "y_orchestrator_result"
    /\ LET parsed == ParseClassification(agent_text)
       IN IF parsed.raised # "None"
          THEN /\ TopError("classification_parse_failed")
               /\ query_type' = query_type
          ELSE /\ query_type' = parsed.query_type
               /\ faults' = faults
               /\ IF SqlGuard(parsed.query_type)
                  THEN Yield(StatusEvent("sql_generation"), "y_sql_generation")
                  ELSE AfterSqlStage(parsed.query_type, sql_result)
    /\ UNCHANGED <<agent_text, data_dna, sql_result, python_result,
                   response_obj, invoked, sandbox, stored>>
    /\ UNCHANGED <<gatewayVars, boxVars>>

CallSqlAgent ==
    /\ ppc = "y_sql_generation"
    /\ CallAgent("sql_agent", "a_sql_agent")
    /\ UNCHANGED <<agent_text, data_dna, query_type, sql_result, python_result,
                   response_obj, sandbox, stored>>
    /\ UNCHANGED <<gatewayVars, boxVars>>

SqlAgentReturns ==
    /\ ppc = "a_sql_agent"
    /\ \E outcome \in {[json |-> "raise"]} \cup SqlTexts :
          IF outcome.json = "raise"
          THEN /\ TopError("sql_agent_failed")
               /\ agent_text' = agent_text
          ELSE /\ agent_text' = outcome
               /\ Yield(StatusEvent("sql_execution"), "y_sql_execution")
               /\ faults' = faults
    /\ UNCHANGED <<data_dna, query_type, sql_result, python_result,
                   response_obj, invoked, sandbox, stored>>
    /\ UNCHANGED <<gatewayVars, boxVars>>

\* "Extract SQL from response", run_sql and the event of its outcome; a
\* sql_result event whose rows json.dumps cannot encode (a timestamp, a
\* decimal) makes event_generator fail
RunSql ==
    /\ ppc = "y_sql_execution"
    /\ LET sql_to_run == extract_sql(agent_text)
       IN IF sql_to_run = "TypeError"
          THEN /\ TopError("sql_extract_failed")
               /\ UNCHANGED <<sql_result, sandbox>>
          ELSE IF sql_to_run = "query"
               THEN /\ sandbox' = Append(sandbox, "run_sql")
                    /\ \E outcome \in {"ok", "ok_unencodable", "ValueError", "RuntimeError"} :
                          IF outcome = "ok"
                          THEN /\ sql_result' = "dict"
                               /\ Yield(ResultEvent("sql_result"), "y_sql_result")
                               /\ faults' = faults
                          ELSE IF outcome = "ok_unencodable"
                               THEN /\ sql_result' = "dict"
                                    /\ StreamError("encode_failed")
                               ELSE /\ sql_result' = sql_result
                                    /\ Yield(ErrorEvent("SQL execution failed"), "y_sql_error")
                                    /\ faults' = faults \cup {"run_sql_failed"}
               ELSE /\ UNCHANGED <<sql_result, sandbox>>
                    /\ faults' = faults \cup {"no_sql_extracted"}
                    /\ AfterSqlStage(query_type, sql_result)
    /\ UNCHANGED <<agent_text, data_dna, query_type, python_result,
                   response_obj, invoked, stored>>
    /\ UNCHANGED <<gatewayVars, boxVars>>

\* after the sql_result event or the error event of the SQL stage
AfterSqlResult ==
    /\ ppc \in {"y_sql_result", "y_sql_error"}
    /\ AfterSqlStage(query_type, sql_result)
    /\ UNCHANGED <<agent_text, data_dna, query_type, sql_result, python_result,
                   response_obj, invoked, sandbox, stored, faults>>
    /\ UNCHANGED <<gatewayVars, boxVars>>

CallPythonAgent ==
    /\ ppc = "y_python_execution"
    /\ CallAgent("python_agent", "a_python_agent")
    /\ UNCHANGED <<agent_text, data_dna, query_type, sql_result, python_result,
                   response_obj, sandbox, stored>>
    /\ UNCHANGED <<gatewayVars, boxVars>>

\* the python agent call is over: "Extract Python code and run it"
PythonAgentReturns ==
    /\ ppc = "a_python_agent"
    /\ \E outcome \in {[json |-> "raise"]} \cup PythonTexts :
          IF outcome.json = "raise"
          THEN /\ TopError("python_agent_failed")
               /\ UNCHANGED <<agent_text, python_result, sandbox>>
          ELSE /\ agent_text' = outcome
               /\ LET python_to_run == extract_python(outcome)
                  IN IF python_to_run = "TypeError"
                     THEN /\ TopError("python_extract_failed")
                          /\ UNCHANGED <<python_result, sandbox>>
                     ELSE IF python_to_run = "code"
                          THEN /\ sandbox' = Append(sandbox, "run_python")
                               /\ \E run \in {"ok", "ValueError", "RuntimeError"} :
                                     IF run = "ok"
                                     THEN /\ python_result' = "dict"
                                          /\ Yield(ResultEvent("python_result"), "y_python_result")
                                          /\ faults' = faults
                                     ELSE /\ python_result' = python_result
                                          /\ Yield(ErrorEvent("Python execution failed"), "y_python_error")
                                          /\ faults' = faults \cup {"run_python_failed"}
                          ELSE /\ UNCHANGED <<python_result, sandbox>>
                               /\ faults' = faults \cup {"no_python_extracted"}
                               /\ Yield(StatusEvent("composition"), "y_composition")
    /\ UNCHANGED <<data_dna, query_type, sql_result, response_obj, invoked, stored>>
    /\ UNCHANGED <<gatewayVars, boxVars>>

\* after the python_result event or the error event of the Python stage
AfterPythonResult ==
    /\ ppc \in {"y_python_result", "y_python_error"}
    /\ Yield(StatusEvent("composition"), "y_composition")
    /\ UNCHANGED <<agent_text, data_dna, query_type, sql_result, python_result,
                   response_obj, invoked, sandbox, stored, faults>>
    /\ UNCHANGED <<gatewayVars, boxVars>>

CallComposer ==
    /\ ppc = "y_composition"
    /\ CallAgent("composer", "a_composer")
    /\ UNCHANGED <<agent_text, data_dna, query_type, sql_result, python_result,
                   response_obj, sandbox, stored>>
    /\ UNCHANGED <<gatewayVars, boxVars>>

\* "Parse final response": json.loads with the {"text": ...} fallback
ParseResponse(text) ==
    IF text.json = "None" THEN "TypeError"
    ELSE IF text.json = "invalid" THEN "text"
    ELSE IF text.json = "object"
         THEN IF text.finding THEN "finding" ELSE "object"
         ELSE text.json

\* final_response yielded before the store is written
PersistAndFinal_YieldFirst(robj) ==
    \E write \in {"ok", "raise"} :
        IF write = "raise"
        THEN /\ stored' = stored
             /\ events' = events \o <<ResultEvent("final_response"),
                                      ErrorEvent("Orchestration failed")>>
             /\ ppc' = "y_error"
             /\ faults' = faults \cup {"persist_failed"}
        ELSE /\ stored' = Append(stored, "message")
             /\ Yield(ResultEvent("final_response"), "y_final")
             /\ faults' = faults

\* "Save to Supabase", "Update accumulated insights", final_response
PersistAndFinal(robj) ==
    \E write \in {"ok", "raise"} :
        IF write = "raise"
        THEN /\ stored' = stored
             /\ TopError("persist_failed")
        ELSE IF robj = "number"
             THEN /\ stored' = Append(stored, "message")
                  /\ TopError("finding_test_failed")
             ELSE IF robj = "finding"
                  THEN \E update \in {"ok", "raise"} :
                          IF update = "ok"
                          THEN /\ stored' = stored \o <<"message", "insights">>
                               /\ Yield(ResultEvent("final_response"), "y_final")
                               /\ faults' = faults
                          ELSE /\ stored' = Append(stored, "message")
                               /\ TopError("persist_failed")
                  ELSE /\ stored' = Append(stored, "message")
                       /\ Yield(ResultEvent("final_response"), "y_final")
                       /\ faults' = faults

\* the composer call is over
ComposerReturns ==
    /\ ppc = "a_composer"
    /\ \E outcome \in {[json |-> "raise"]} \cup ComposerTexts :
          IF outcome.json = "raise"
          THEN /\ TopError("composer_failed")
               /\ UNCHANGED <<agent_text, response_obj, stored>>
          ELSE /\ agent_text' = outcome
               /\ IF ParseResponse(outcome) = "TypeError"
                  THEN /\ TopError("response_parse_failed")
                       /\ UNCHANGED <<response_obj, stored>>
                  ELSE /\ response_obj' = ParseResponse(outcome)
                       /\ PersistAndFinal(ParseResponse(outcome))
    /\ UNCHANGED <<data_dna, query_type, sql_result, python_result, invoked, sandbox>>
    /\ UNCHANGED <<gatewayVars, boxVars>>

\* the generator ends after its last event
Finish ==
    /\ ppc \in {"y_final", "y_error"}
    /\ ppc' = "done"
    /\ UNCHANGED <<agent_text, events, data_dna, query_type, sql_result,
                   python_result, response_obj, invoked, sandbox, stored, faults>>
    /\ UNCHANGED <<gatewayVars, boxVars>>

\* the caller closes the stream: GeneratorExit / CancelledError is no
\* Exception, so no handler of stream_chat or event_generator runs
Cancel ==
    /\ ppc \notin {"init", "done", "cancelled"}
    /\ ppc' = "cancelled"
    /\ faults' = faults \cup {"cancelled"}
    /\ UNCHANGED <<agent_text, events, data_dna, query_type, sql_result,
                   python_result, response_obj, invoked, sandbox, stored>>
    /\ UNCHANGED <<gatewayVars, boxVars>>

NextPipe ==
    \/ Begin
    \/ LoadProfile
    \/ CallOrchestrator
    \/ OrchestratorReturns
    \/ Route
    \/ CallSqlAgent
    \/ SqlAgentReturns
    \/ RunSql
    \/ AfterSqlResult
    \/ CallPythonAgent
    \/ PythonAgentReturns
    \/ AfterPythonResult
    \/ CallComposer
    \/ ComposerReturns
    \/ Finish
    \/ Cancel

\* one request on a pool of one key
InitPipe == Init /\ Len(km.keys) = 1

SpecPipe == InitPipe /\ [][NextPipe]_vars

(* ------------------ BytezClient._stream_response ---------------------- *)

\* a line of the response body is the text prefix \o rest
StreamLines ==
    {[prefix |-> p, rest |-> r] :
        p \in {"data: ", "data:", ""}, r \in {"[DONE]", "1", "2", "{"}}

\* the bodies of at most MaxLines lines
RECURSIVE Bodies(_)
Bodies(n) ==
    IF n = 0 THEN {<<>>}
    ELSE Bodies(n - 1)
         \cup {Append(b, l) : b \in {c \in Bodies(n - 1) : Len(c) = n - 1},
                              l \in StreamLines}

\* line.startswith("data: ")
StartsWithData(line) == line.prefix = "data: "

\* json.loads of the texts that follow the prefix
json_loads(data_str) ==
    CASE data_str = "1" -> [raised |-> "None", value |-> 1]
      [] data_str = "2" -> [raised |-> "None", value |-> 2]
      [] OTHER -> [raised |-> "JSONDecodeError", value |-> 0]

\* a test of the end of the stream that no line passes
IsDone_Never(data_str) == FALSE

\* if data_str == "[DONE]"
IsDone(data_str) == data_str = "[DONE]"

\* the loop of _stream_response resumed before line i: it runs to its
\* next yield, to the break at "[DONE]" or to the end of the lines
RECURSIVE ResumeAt(_, _)
ResumeAt(lines, i) ==
    IF i > Len(lines) THEN [yielded |-> FALSE, pos |-> i]
    ELSE IF ~StartsWithData(lines[i]) THEN ResumeAt(lines, i + 1)
    ELSE IF IsDone(lines[i].rest) THEN [yielded |-> FALSE, pos |-> i]
    ELSE IF json_loads(lines[i].rest).raised # "None"
         THEN ResumeAt(lines, i + 1)
         ELSE [yielded |-> TRUE, chunk |-> json_loads(lines[i].rest).value,
               pos |-> i + 1]

\* chat_completions(stream=True) returns the generator for a 200 response;
\* no line is read yet
CallStreamResponse ==
    /\ stream.pc = "new"
    /\ \E lines \in Bodies(MaxLines) :
          stream' = [pc |-> "created", lines |-> lines, pos |-> 1,
                     chunks |-> <<>>, again |-> FALSE]
    /\ UNCHANGED <<gatewayVars, pipeVars, sqlbox, pybox, loopVars, route>>

\* the consumer asks for the next chunk
StreamNext ==
    /\ stream.pc \in {"created", "suspended"}
    /\ LET r == ResumeAt(stream.lines, stream.pos)
       IN stream' = IF r.yielded
                    THEN [stream EXCEPT !.pc = "suspended", !.pos = r.pos,
                                        !.chunks = Append(@, r.chunk)]
                    ELSE [stream EXCEPT !.pc = "exhausted", !.pos = r.pos]
    /\ UNCHANGED <<gatewayVars, pipeVars, sqlbox, pybox, loopVars, route>>

\* the consumer asks again after the generator has returned:
\* StopAsyncIteration, nothing is read or yielded
StreamNextAgain ==
    /\ stream.pc = "exhausted"
    /\ stream' = [stream EXCEPT !.again = TRUE]
    /\ UNCHANGED <<gatewayVars, pipeVars, sqlbox, pybox, loopVars, route>>

NextStream ==
    \/ CallStreamResponse
    \/ StreamNext
    \/ StreamNextAgain

\* one streamed response
SpecStream == InitPipe /\ [][NextStream]_vars

(* --------------------------- routes/chat.py --------------------------- *)

\* error_generator, for the message it is to report: its one yield
\* evaluates json.dumps({{...}}) inside an f-string, a set display that
\* holds a dict, which raises TypeError (unhashable type) before anything
\* is yielded
error_generator(message) == [yielded |-> <<>>, raised |-> "TypeError"]

\* chat_stream up to its return: the insert of the user message, the test
\* of BYTEZ_API_KEY_1, get_orchestrator, and the generator handed to
\* StreamingResponse; an exception is re-raised as HTTPException(500)
ChatStream ==
    /\ route.pc = "new"
    /\ ppc = "init"
    /\ \E insert \in {"ok", "empty", "raise"}, bytez_key_1 \in BOOLEAN,
          orchestrator \in {"ok", "raise"} :
          route' =
             IF insert # "ok"
             THEN [pc |-> "raised", status_code |-> 500, generator |-> "None",
                   message |-> "Chat stream failed"]
             ELSE IF ~bytez_key_1
             THEN [pc |-> "streaming", status_code |-> 200,
                   generator |-> "error_generator",
                   message |-> "Bytez API keys not configured"]
             ELSE IF orchestrator = "raise"
             THEN [pc |-> "streaming", status_code |-> 200,
                   generator |-> "error_generator",
                   message |-> "Failed to initialize orchestrator"]
             ELSE [pc |-> "streaming", status_code |-> 200,
                   generator |-> "event_generator", message |-> "None"]
    /\ UNCHANGED <<gatewayVars, pipeVars, sqlbox, pybox, loopVars, stream>>

\* StreamingResponse iterates error_generator
ErrorGenerator ==
    /\ route.pc = "streaming"
    /\ route.generator = "error_generator"
    /\ LET g == error_generator(route.message)
       IN /\ events' = events \o g.yielded
          /\ route' = [route EXCEPT !.pc = IF g.raised = "None" THEN "closed"
                                                               ELSE "broken"]
    /\ UNCHANGED <<ppc, agent_text, data_dna, query_type, sql_result,
                   python_result, response_obj, invoked, sandbox, stored, faults>>
    /\ UNCHANGED <<gatewayVars, sqlbox, pybox, loopVars, stream>>

\* StreamingResponse iterates event_generator, which iterates stream_chat
EventGenerator ==
    /\ route.pc = "streaming"
    /\ route.generator = "event_generator"
    /\ NextPipe

NextChat ==
    \/ ChatStream
    \/ ErrorGenerator
    \/ EventGenerator

\* one POST /chat/stream
SpecChat == InitPipe /\ [][NextChat]_vars

(* ---------------------- services/sql_executor.py ---------------------- *)

DANGEROUS_KEYWORDS ==
    {"INSTALL", "LOAD", "COPY", "EXPORT", "ATTACH", "PRAGMA", "CREATE",
     "INSERT", "UPDATE", "DELETE", "DROP", "CALL", "ALTER"}

\* the words of a query text, spelled in capitals: the dangerous keywords,
\* SELECT, TABLE, a word that has a keyword inside it, an identifier
SqlWords == DANGEROUS_KEYWORDS \cup {"SELECT", "TABLE", "DROPS", "X"}

\* how the letters of a text are written
LetterCases == {"upper", "lower", "mixed"}

\* what a text has before its first word: nothing, white space, a
\* character that is neither white space nor part of a word
Leads == {"", " ", "("}

\* a query text: its lead, then words with a blank between them
SqlQueries ==
    [lead : Leads, case : LetterCases,
     words : UNION {[1..n -> SqlWords] : n \in 0..MaxWords}]

\* str.upper
upper(text) == [text EXCEPT !.case = "upper"]

\* re.search(rf"\b{keyword}\b", text): keyword, written in capitals, is a
\* whole word of text
SearchWord(keyword, text) ==
    /\ text.case = "upper"
    /\ \E i \in 1..Len(text.words) : text.words[i] = keyword

\* re.search(r"^\s*SELECT\b", text)
SearchSelect(text) ==
    /\ text.lead \in {"", " "}
    /\ text.case = "upper"
    /\ Len(text.words) >= 1
    /\ text.words[1] = "SELECT"

\* a validation that searches the text as it is written
validate_sql_CaseSensitive(sql) ==
    LET found == {k \in DANGEROUS_KEYWORDS : SearchWord(k, sql)}
    IN  IF found # {}
        THEN {[is_valid |-> FALSE, error_msg |-> "Dangerous keyword", keyword |-> k] :
                 k \in found}
        ELSE IF ~SearchSelect(upper(sql))
             THEN {[is_valid |-> FALSE, error_msg |-> "Only SELECT", keyword |-> "None"]}
             ELSE {[is_valid |-> TRUE, error_msg |-> "None", keyword |-> "None"]}

\* validate_sql: the results it can give; the keyword named is the first
\* one found in the iteration order of the set DANGEROUS_KEYWORDS, which
\* differs from one interpreter run to the next
validate_sql(sql) ==
    LET sql_upper == upper(sql)
        found == {k \in DANGEROUS_KEYWORDS : SearchWord(k, sql_upper)}
    IN  IF found # {}
        THEN {[is_valid |-> FALSE, error_msg |-> "Dangerous keyword", keyword |-> k] :
                 k \in found}
        ELSE IF ~SearchSelect(sql_upper)
             THEN {[is_valid |-> FALSE, error_msg |-> "Only SELECT", keyword |-> "None"]}
             ELSE {[is_valid |-> TRUE, error_msg |-> "None", keyword |-> "None"]}

\* a row limit that is not applied
ApplyRowLimit_Off(rows, limit_rows) == rows

\* "Apply row limit": len(result_df.head(limit_rows)) when the result is
\* longer than limit_rows
ApplyRowLimit(rows, limit_rows) ==
    IF rows > limit_rows THEN limit_rows ELSE rows

\* how a run_sql call ends; -1 stands for no number of rows
SqlOutcome(raised, msg, keyword, rows, summary_rows) ==
    [raised |-> raised, msg |-> msg, keyword |-> keyword, rows |-> rows,
     summary_rows |-> summary_rows]

\* run_sql, for the result v of the validation, the outcome of the
\* download, the outcome of tmp.write / tmp.close (the file system may
\* refuse the bytes) and the outcome of the engine (a number of rows, or
\* -1 when it raises); steps are the calls made, in order
run_sql(sql, limit_rows, v, download, write, engine) ==
    IF ~v.is_valid
    THEN [pc |-> "done", sql |-> sql, limit_rows |-> -1, steps |-> <<>>,
          engine_rows |-> -1,
          out |-> SqlOutcome("ValueError", "Invalid SQL", v.keyword, -1, -1)]
    ELSE IF download = "raise"
    THEN [pc |-> "done", sql |-> sql, limit_rows |-> limit_rows,
          steps |-> <<"download_file">>, engine_rows |-> -1,
          out |-> SqlOutcome("RuntimeError", "Failed to download parquet file",
                             "None", -1, -1)]
    ELSE IF write = "raise"
    THEN [pc |-> "done", sql |-> sql, limit_rows |-> limit_rows,
          steps |-> <<"download_file", "create_tmp", "write_tmp">>,
          engine_rows |-> -1,
          out |-> SqlOutcome("OSError", "No space left on device",
                             "None", -1, -1)]
    ELSE IF engine < 0
    THEN [pc |-> "done", sql |-> sql, limit_rows |-> limit_rows,
          steps |-> <<"download_file", "create_tmp", "write_tmp", "execute",
                      "unlink">>,
          engine_rows |-> -1,
          out |-> SqlOutcome("RuntimeError", "Query execution failed",
                             "None", -1, -1)]
    ELSE LET rows == ApplyRowLimit(engine, limit_rows)
         IN [pc |-> "done", sql |-> sql, limit_rows |-> limit_rows,
             steps |-> <<"download_file", "create_tmp", "write_tmp", "execute",
                         "unlink">>,
             engine_rows |-> engine,
             out |-> SqlOutcome("None", "None", "None", rows, rows)]

\* one call of run_sql, from the pipeline or from POST /sql/execute
CallRunSql ==
    /\ sqlbox.pc = "idle"
    /\ \E sql \in SqlQueries : \E v \in validate_sql(sql) :
          IF ~v.is_valid
          THEN sqlbox' = run_sql(sql, 0, v, "ok", "ok", 0)
          ELSE \E limit_rows \in 0..MaxLimit, download \in {"ok", "raise"},
                  write \in {"ok", "raise"}, engine \in -1..MaxRows :
                  sqlbox' = run_sql(sql, limit_rows, v, download, write, engine)
    /\ UNCHANGED <<gatewayVars, pipeVars, pybox, loopVars, edgeVars>>

NextSql == CallRunSql

SpecSql == InitPipe /\ [][NextSql]_vars

(* --------------------- services/python_executor.py -------------------- *)

ALLOWED_MODULES ==
    {"pandas", "numpy", "scipy", "scipy.stats", "math", "statistics", "json"}

DANGEROUS_BUILTINS ==
    {"open", "exec", "eval", "__import__", "compile", "globals", "locals",
     "vars", "dir", "getattr", "setattr", "delattr", "hasattr"}

\* syntax tree nodes; a dotted module name is the sequence of its parts
Name(id) == [kind |-> "Name", id |-> id]
Attribute(value, attr) == [kind |-> "Attribute", value |-> value, attr |-> attr]
Call(func) == [kind |-> "Call", func |-> func]
Import(names) == [kind |-> "Import", names |-> names]
ImportFrom(module) == [kind |-> "ImportFrom", module |-> module]
Expr(value) == [kind |-> "Expr", value |-> value]

\* a compound statement (def, if): the expression of its header, if it
\* has one, and its body
NoNode == [kind |-> "None"]
Compound(head, body) == [kind |-> "Compound", head |-> head, body |-> body]

\* names, attribute names and module names used in the code under test
CodeNames == {"eval", "__builtins__"}
CodeAttrs == {"eval", "_x"}
CodeModules == {<<"os">>, <<"scipy", "stats">>}

\* expressions nested at most d deep
RECURSIVE Exprs(_)
Exprs(d) ==
    IF d = 0
    THEN {Name(id) : id \in CodeNames}
    ELSE Exprs(d - 1)
         \cup {Attribute(e, a) : e \in Exprs(d - 1), a \in CodeAttrs}
         \cup {Call(e) : e \in Exprs(d - 1)}

\* import statements: one or two modules, "from m import ..." and
\* "from . import ..." (no module)
ImportStmts ==
    {Import(ns) : ns \in UNION {[1..n -> CodeModules] : n \in 1..2}}
    \cup {ImportFrom(m) : m \in {<<>>, <<"os">>}}

\* statements nested at most d deep
RECURSIVE Stmts(_)
Stmts(d) ==
    ImportStmts \cup {Expr(e) : e \in Exprs(d)}
    \cup (IF d = 0 THEN {} ELSE {Compound(NoNode, b) : b \in Stmts(d - 1)})

\* the code texts given to run_python: one that does not parse, and the
\* modules of at most MaxBody statements
Codes ==
    {[syntax_ok |-> FALSE, body |-> <<>>]}
    \cup {[syntax_ok |-> TRUE, body |-> b] :
             b \in UNION {[1..n -> Stmts(MaxDepth)] : n \in 0..MaxBody}}

\* an entry of ASTValidator.errors
ValidationError(kind, name) == [kind |-> kind, name |-> name]

\* attr.startswith("_"), on the attribute names used here
StartsWithUnderscore(attr) == attr \in {"_x", "__import__"}

\* visit_Import: one error for each alias whose first part is not allowed
RECURSIVE visit_Import(_)
visit_Import(names) ==
    IF names = <<>> THEN <<>>
    ELSE (IF Head(names)[1] \notin ALLOWED_MODULES
          THEN <<ValidationError("Import", Head(names)[1])>> ELSE <<>>)
         \o visit_Import(Tail(names))

\* ASTValidator.visit: the errors appended while node is walked
RECURSIVE visit(_)
visit(node) ==
    CASE node.kind = "Import" -> visit_Import(node.names)
      [] node.kind = "ImportFrom" ->
            IF node.module # <<>> /\ node.module[1] \notin ALLOWED_MODULES
            THEN <<ValidationError("ImportFrom", node.module[1])>> ELSE <<>>
      [] node.kind = "Call" ->
            (IF node.func.kind = "Name" /\ node.func.id \in DANGEROUS_BUILTINS
             THEN <<ValidationError("Call", node.func.id)>> ELSE <<>>)
            \o visit(node.func)
      [] node.kind = "Attribute" ->
            (IF StartsWithUnderscore(node.attr)
             THEN <<ValidationError("Attribute", node.attr)>> ELSE <<>>)
            \o visit(node.value)
      [] node.kind = "Expr" -> visit(node.value)
      [] node.kind = "Compound" -> visit(node.head) \o visit(node.body)
      [] OTHER -> <<>>

\* visit of the Module node: its statements in order
RECURSIVE visit_Module(_)
visit_Module(body) ==
    IF body = <<>> THEN <<>> ELSE visit(Head(body)) \o visit_Module(Tail(body))

validate_python_code(code) ==
    IF ~code.syntax_ok
    THEN [is_valid |-> FALSE, errors |-> <<ValidationError("SyntaxError", "")>>]
    ELSE LET errors == visit_Module(code.body)
         IN [is_valid |-> errors = <<>>, errors |-> errors]

\* create_safe_python_wrapper: five imports, the code, then
\* "if 'results' in locals(): print(json.dumps(results))" (the arguments
\* of the calls are left out)
create_safe_python_wrapper(code) ==
    [syntax_ok |-> code.syntax_ok,
     body |-> <<Import(<< <<"pandas">> >>), Import(<< <<"numpy">> >>),
                ImportFrom(<<"scipy">>), Import(<< <<"json">> >>),
                Import(<< <<"sys">> >>)>>
              \o code.body
              \o <<Compound(Call(Name("locals")), Expr(Call(Name("print"))))>>]

\* what the child process does: it ends with status 0 and prints JSON,
\* other text, white space only or nothing, it ends with another status,
\* or it is still running when timeout_s is over
ChildOutcomes ==
    {"exit_0_json", "exit_0_text", "exit_0_blank", "exit_0_empty",
     "exit_nonzero", "timeout"}

\* "Parse output" with text that is no JSON dropped
ParseOutput_Discard(child) ==
    CASE child = "exit_0_json" -> "json.loads(output)"
      [] OTHER -> "{}"

\* "Parse output": output = result.stdout.strip(); json.loads(output),
\* {"output": output} when that raises JSONDecodeError, {} when output
\* is empty
ParseOutput(child) ==
    CASE child = "exit_0_json" -> "json.loads(output)"
      [] child = "exit_0_text" -> "{'output': output}"
      [] OTHER -> "{}"

\* a subprocess.run that leaves the child alone when the time is over
subprocess_run_NoKill(child) ==
    [children |-> 1,
     running |-> IF child = "timeout" THEN 1 ELSE 0,
     raised |-> IF child = "timeout" THEN "TimeoutExpired" ELSE "None"]

\* subprocess.run(..., timeout=timeout_s): one child is started; when the
\* time is over it is killed and waited for, and TimeoutExpired is raised
subprocess_run(child) ==
    [children |-> 1,
     running |-> 0,
     raised |-> IF child = "timeout" THEN "TimeoutExpired" ELSE "None"]

NoCode == [syntax_ok |-> FALSE, body |-> <<"None">>]

\* how a run_python call ends
PyOutcome(raised, msg, errors, results) ==
    [raised |-> raised, msg |-> msg, errors |-> errors, results |-> results]

\* run_python(code, ...), for the outcome of tmp.write / tmp.close (the
\* file system may refuse the text) and for what the child process does;
\* steps are the calls made on the temp file and the child, in order
run_python(code, write, child) ==
    LET v == validate_python_code(code)
    IN  IF ~v.is_valid
        THEN [executed |-> NoCode, child |-> "None", children |-> 0, running |-> 0,
              steps |-> <<>>,
              out |-> PyOutcome("ValueError", "Invalid Python code", v.errors, "None")]
        ELSE IF write = "raise"
        THEN [executed |-> NoCode, child |-> "None", children |-> 0, running |-> 0,
              steps |-> <<"create_tmp", "write_tmp">>,
              out |-> PyOutcome("OSError", "No space left on device", <<>>, "None")]
        ELSE LET p == subprocess_run(child)
             IN [executed |-> code, child |-> child,
                 children |-> p.children, running |-> p.running,
                 steps |-> <<"create_tmp", "write_tmp", "subprocess.run", "unlink">>,
                 out |-> IF p.raised = "TimeoutExpired"
                         THEN PyOutcome("RuntimeError", "Python execution timed out",
                                        <<>>, "None")
                         ELSE IF child = "exit_nonzero"
                         THEN PyOutcome("RuntimeError",
                                        "Python execution failed: Execution failed: stderr",
                                        <<>>, "None")
                         ELSE PyOutcome("None", "None", <<>>, ParseOutput(child))]

\* the code a caller hands to run_python: the pipeline passes the
\* extracted code, POST /python/execute passes the wrapped code
Callers == {"pipeline", "endpoint"}
Argument(caller, code) ==
    IF caller = "endpoint" THEN create_safe_python_wrapper(code) ELSE code

\* one call of run_python
CallRunPython ==
    /\ pybox.pc = "idle"
    /\ \E caller \in Callers, code \in Codes :
          LET arg == Argument(caller, code)
          IN  \E write \in {"ok", "raise"},
                 child \in IF validate_python_code(arg).is_valid
                           THEN ChildOutcomes ELSE {"None"} :
                 pybox' = [pc |-> "done", caller |-> caller, code |-> code]
                          @@ run_python(arg, write, child)
    /\ UNCHANGED <<gatewayVars, pipeVars, sqlbox, loopVars, edgeVars>>

NextPy == CallRunPython

SpecPy == InitPipe /\ [][NextPy]_vars

(* ------------- concurrent requests on one event loop ------------------ *)

\* Requests of one session run stream_chat as coroutines of one event
\* loop.  An insight is written as the number of the request that found
\* it; 0 is an insight stored before.

\* "Load session and Data DNA": the request keeps the stored profile
ReqLoad(r) ==
    /\ thread = 0
    /\ req[r].pc = "new"
    /\ req' = [req EXCEPT ![r].pc = "awaiting_agent", ![r].loaded = insights]
    /\ UNCHANGED <<thread, insights>>
    /\ UNCHANGED <<gatewayVars, pipeVars, sqlbox, pybox, edgeVars>>

\* the awaited agent calls are over and run_sql or run_python is called:
\* a plain call inside the coroutine, which keeps the thread until it
\* returns; run_python starts its child process
ReqEnterSandbox(r) ==
    /\ thread = 0
    /\ req[r].pc = "awaiting_agent"
    /\ \E box \in {"run_sql", "run_python"} :
          req' = [req EXCEPT ![r].pc = "in_sandbox", ![r].box = box,
                             ![r].child = IF box = "run_python"
                                          THEN "running" ELSE "None"]
    /\ thread' = r
    /\ UNCHANGED insights
    /\ UNCHANGED <<gatewayVars, pipeVars, sqlbox, pybox, edgeVars>>

\* the sandbox call returns or raises: the child has ended by itself or
\* was killed at the timeout; the event is yielded and the composer
\* awaited
ReqLeaveSandbox(r) ==
    /\ thread = r
    /\ req[r].pc = "in_sandbox"
    /\ \E ended \in {"exited", "killed_at_timeout"} :
          req' = [req EXCEPT ![r].pc = "awaiting_composer",
                             ![r].child = IF req[r].box = "run_python"
                                          THEN ended ELSE "None"]
    /\ thread' = 0
    /\ UNCHANGED insights
    /\ UNCHANGED <<gatewayVars, pipeVars, sqlbox, pybox, edgeVars>>

\* a classification without sandbox stage: the composer is awaited
ReqSkipSandbox(r) ==
    /\ thread = 0
    /\ req[r].pc = "awaiting_agent"
    /\ req' = [req EXCEPT ![r].pc = "awaiting_composer"]
    /\ UNCHANGED <<thread, insights>>
    /\ UNCHANGED <<gatewayVars, pipeVars, sqlbox, pybox, edgeVars>>

\* the composer call is over: the message is inserted and, if the
\* response has a finding, the insights loaded at the start plus the new
\* one are written to the session
ReqPersist(r) ==
    /\ thread = 0
    /\ req[r].pc = "awaiting_composer"
    /\ \E finding \in BOOLEAN :
          /\ req' = [req EXCEPT ![r].pc = "done", ![r].finding = finding]
          /\ insights' = IF finding THEN Append(req[r].loaded, r) ELSE insights
    /\ UNCHANGED thread
    /\ UNCHANGED <<gatewayVars, pipeVars, sqlbox, pybox, edgeVars>>

\* the caller closes the stream of a running request
ClientCloses(r) ==
    /\ req[r].pc \in {"awaiting_agent", "in_sandbox", "awaiting_composer"}
    /\ ~req[r].closed
    /\ req' = [req EXCEPT ![r].closed = TRUE]
    /\ UNCHANGED <<thread, insights>>
    /\ UNCHANGED <<gatewayVars, pipeVars, sqlbox, pybox, edgeVars>>

\* the event loop handles the disconnect: the coroutine of the request is
\* cancelled where it is suspended
ReqCancelled(r) ==
    /\ thread = 0
    /\ req[r].closed
    /\ req[r].pc \in {"awaiting_agent", "awaiting_composer"}
    /\ req' = [req EXCEPT ![r].pc = "cancelled"]
    /\ UNCHANGED <<thread, insights>>
    /\ UNCHANGED <<gatewayVars, pipeVars, sqlbox, pybox, edgeVars>>

\* a step of the coroutine of request r
ReqStep(r) ==
    \/ ReqLoad(r)
    \/ ReqEnterSandbox(r)
    \/ ReqLeaveSandbox(r)
    \/ ReqSkipSandbox(r)
    \/ ReqPersist(r)
    \/ ReqCancelled(r)

NextLoop ==
    \/ \E r \in Tasks : ReqLoad(r)
    \/ \E r \in Tasks : ReqEnterSandbox(r)
    \/ \E r \in Tasks : ReqLeaveSandbox(r)
    \/ \E r \in Tasks : ReqSkipSandbox(r)
    \/ \E r \in Tasks : ReqPersist(r)
    \/ \E r \in Tasks : ClientCloses(r)
    \/ \E r \in Tasks : ReqCancelled(r)

SpecLoop == InitPipe /\ [][NextLoop]_vars

(* ------------------------------ properties ---------------------------- *)

Last(q) == q[Len(q)]

\* the keys of the list are pairwise different secrets
DistinctKeys(m) == \A i, j \in 1..Len(m.keys) : m.keys[i] = m.keys[j] => i = j

\* the index is past the last credential
Exhausted(m) == m.current_key_index >= Len(m.keys)

\* the index points at a credential that is not in the failed set
Healthy(m) ==
    /\ m.current_key_index < Len(m.keys)
    /\ KeyAt(m, m.current_key_index) \notin m.failed_keys

\* task t sends a request in this step
Sends(t) == pc[t] # "awaiting_post" /\ pc'[t] = "awaiting_post"

\* task t receives a response in this step
Receives(t) == log'[t] # log[t] /\ log'[t] # <<>>

\* the only call made so far is t's, every request of it was answered,
\* each time with 401, and it is over
AllAnswered401(t) ==
    /\ calls = 1
    /\ pc[t] = "done"
    /\ Len(log[t]) = Len(sent[t])
    /\ \A i \in 1..Len(log[t]) : log[t][i] = 401

\* C1: on a fresh pool of N different credentials that all answer 401, a
\* single chat_completions call sends exactly N requests, one with each
\* credential in the order of the list, and then raises RuntimeError with
\* the pool exhausted.
C1_AllFail ==
    \A t \in Tasks :
        (AllAnswered401(t) /\ DistinctKeys(km)) =>
            /\ sent[t] = km.keys
            /\ result[t].raised = "RuntimeError"
            /\ km.current_key_index = Len(km.keys)
            /\ km.last_rotation_event.type = "all_keys_exhausted"

C1_Witness ==
    \E t \in Tasks :
        /\ AllAnswered401(t) /\ DistinctKeys(km)
        /\ Len(km.keys) = 3
        /\ Len(sent[t]) = 3

\* C2: once the pool is exhausted no call sends a request to the model API
\* any more.
C2_NoAttemptAfterExhaustion ==
    [][Exhausted(km) => \A t \in Tasks : ~Sends(t)]_vars

\* C3: a credential is marked failed only by a call whose failed request
\* was sent with that credential, so two failures of requests sent with
\* the same credential never mark the next, unused credential failed.
C3_OnlyUsedKeyMarked ==
    [][\A k \in km'.failed_keys \ km.failed_keys :
          \E t \in Tasks : Receives(t) /\ Last(sent[t]) = k]_vars

\* C4: while the pool is not exhausted, a response with status 200
\* increments the usage count of the credential its request was sent
\* with, and of no other credential, whatever the other calls did while
\* the request was in flight.
C4_SuccessOnSentKey ==
    [][\A t \in Tasks :
          (Receives(t) /\ Last(log'[t]) = 200 /\ IndexInRange(km)) =>
              km'.usage_count =
                  [km.usage_count EXCEPT ![Last(sent[t])] = @ + 1]]_vars

\* C5 as stated: in every reachable pool state the index points at a
\* credential that is not failed, or the pool is exhausted.
C5_Original == Healthy(km) \/ Exhausted(km)

\* C5 amended: every rotate_key leaves the index on a credential that is
\* not failed or leaves the pool exhausted, and no operation other than
\* mark_current_key_failed takes the pool out of such a state.
C5_Amended ==
    [][/\ ret'.op = "rotate_key" => (Healthy(km') \/ Exhausted(km'))
       /\ ((Healthy(km) \/ Exhausted(km)) /\ ret'.op # "mark_current_key_failed")
              => (Healthy(km') \/ Exhausted(km'))]_vars

C5_Witness ==
    /\ ret.op = "rotate_key"
    /\ ret.from < km.current_key_index - 1
    /\ Healthy(km)
    /\ km.failed_keys # {}

\* C6: no pool operation decreases the current index or takes a
\* credential out of the failed set.
C6_Monotone ==
    [][/\ km'.current_key_index >= km.current_key_index
       /\ km.failed_keys \subseteq km'.failed_keys]_vars

C6_Witness ==
    /\ km.current_key_index > 0
    /\ km.failed_keys # {}
    /\ ret.op = "get_and_clear_last_event"

\* C7: when rotate_key returns True the new current index is inside the
\* list, lies after the index it started from, and its credential is not
\* in the failed set.
C7_RotateTrueIsHealthy ==
    (ret.op = "rotate_key" /\ ret.value) =>
        /\ Healthy(km)
        /\ km.current_key_index > ret.from

C7_Witness ==
    /\ ret.op = "rotate_key"
    /\ ret.value
    /\ km.current_key_index > ret.from + 1
    /\ Healthy(km)

\* C8: once the pool is exhausted it stays exhausted whatever operation
\* follows, and every rotate_key call returns False.
C8_ExhaustedForever ==
    [][Exhausted(km) =>
          /\ Exhausted(km')
          /\ ret'.op = "rotate_key" => ret'.value = FALSE]_vars

C8_Witness ==
    /\ ret.op = "rotate_key"
    /\ ret.from >= Len(km.keys)
    /\ ret.value = FALSE
    /\ Exhausted(km)

\* C9: a response whose status is neither 2xx nor 401, 403, 429 or 5xx
\* ends the call at once with RuntimeError("Bytez API error ..."): no
\* further request is sent and the pool is left as it was.
C9_OtherStatusFailsFast ==
    [][\A t \in Tasks :
          (/\ Receives(t)
           /\ Last(log'[t]) >= 300
           /\ Last(log'[t]) \notin {401, 403, 429}
           /\ Last(log'[t]) < 500) =>
              /\ km' = km
              /\ client' = client
              /\ sent' = sent
              /\ pc'[t] = "done"
              /\ result'[t] = Raised("RuntimeError", "Bytez API error")]_vars

C9_Witness ==
    \E t \in Tasks :
        /\ pc[t] = "done"
        /\ log[t] = <<404>>
        /\ Len(sent[t]) = 1
        /\ result[t] = Raised("RuntimeError", "Bytez API error")

\* the only call made so far is t's, on a list of three different
\* credentials; its first request got 429 and its second 200
Scenario429Then200(t) ==
    /\ calls = 1
    /\ Len(km.keys) = 3
    /\ DistinctKeys(km)
    /\ log[t] = <<429, 200>>

\* C10: with three credentials, 429 on the first request and 200 on the
\* retry, the call returns, the requests went out with credential 1 and
\* then credential 2, the one rotation recorded is the one from index 0 to
\* index 1, credential 1 has error count 1 and credential 2 usage count 1.
C10_RotateOnce ==
    \A t \in Tasks :
        Scenario429Then200(t) =>
            /\ result[t] = Returned
            /\ sent[t] = <<km.keys[1], km.keys[2]>>
            /\ km.current_key_index = 1
            /\ km.last_rotation_event =
                   [type |-> "key_rotated", from_index |-> 0, to_index |-> 1]
            /\ km.failed_keys = {km.keys[1]}
            /\ km.error_count[km.keys[1]] = 1
            /\ km.usage_count[km.keys[2]] = 1
            /\ km.usage_count[km.keys[1]] = 0

C10_Witness ==
    \E t \in Tasks : Scenario429Then200(t) /\ pc[t] = "done"

\* C11: get_current_key returns keys[current_key_index] exactly when the
\* index is inside the list and that key is not in failed_keys, raises
\* RuntimeError in every other state, and leaves the pool as it was.
C11_CurrentKey ==
    [][ret'.op = "get_current_key" =>
          /\ km' = km
          /\ IF Healthy(km)
             THEN ret'.out = [raised |-> "None",
                              value |-> KeyAt(km, km.current_key_index)]
             ELSE ret'.out.raised = "RuntimeError"]_vars

C11_Witness ==
    /\ ret.op = "get_current_key"
    /\ ret.out.raised = "RuntimeError"
    /\ km.current_key_index < Len(km.keys)
    /\ KeyAt(km, km.current_key_index) \in km.failed_keys

(* ------------------------- pipeline properties ------------------------ *)

Range(q) == {q[i] : i \in 1..Len(q)}

\* the stream has ended and the caller did not close it
Ended == ppc = "done"

\* the error event that ends the stream: the one of stream_chat's
\* top-level handler
IsTerminalError(e) ==
    /\ e.type = "error"
    /\ e.message = "Orchestration failed"

\* how many times event e is in the stream
Count(e) == Cardinality({i \in 1..Len(events) : events[i] = e})

\* C12: a stream that the caller did not cancel ends with a
\* final_response event or an error event as its last event.
C12_EndsWithFinalOrError ==
    Ended =>
        /\ events # <<>>
        /\ Last(events).type \in {"final_response", "error"}

\* C13 as stated: no event follows a final_response event or an error
\* event.
C13_Original ==
    \A i \in 1..(Len(events) - 1) :
        events[i].type \notin {"final_response", "error"}

\* C13 amended: no event follows a final_response event or the error event
\* of a pipeline-level failure, so a stream holds at most one of those; the
\* error event of a failed SQL or Python run is followed by the events of
\* the later stages.
C13_Amended ==
    \A i \in 1..(Len(events) - 1) :
        /\ events[i].type # "final_response"
        /\ ~IsTerminalError(events[i])

C13_Witness ==
    /\ Ended
    /\ ErrorEvent("SQL execution failed") \in Range(events)
    /\ Last(events) = ErrorEvent("Orchestration failed")
    /\ "persist_failed" \in faults

\* the stage an event belongs to: 1 LOAD_PROFILE, 2 CLASSIFY, 3 QUERY,
\* 4 CODE, 5 COMPOSE, 7 EMIT_FINAL, 8 the end of the stream by an error
StageOf(e) ==
    IF e.type = "status"
    THEN CASE e.stage = "loading" -> 1
           [] e.stage = "orchestrating" -> 2
           [] e.stage \in {"sql_generation", "sql_execution"} -> 3
           [] e.stage = "python_execution" -> 4
           [] e.stage = "composition" -> 5
    ELSE IF e.type = "error"
         THEN CASE e.message = "SQL execution failed" -> 3
                [] e.message = "Python execution failed" -> 4
                [] OTHER -> 8
         ELSE CASE e.type = "orchestrator_result" -> 2
                [] e.type = "sql_result" -> 3
                [] e.type = "python_result" -> 4
                [] e.type = "final_response" -> 7

\* the status events that announce the stage of a result event
StatusOf(type) ==
    CASE type = "orchestrator_result" -> {StatusEvent("orchestrating")}
      [] type = "sql_result" -> {StatusEvent("sql_generation"),
                                 StatusEvent("sql_execution")}
      [] type = "python_result" -> {StatusEvent("python_execution")}
      [] type = "final_response" -> {StatusEvent("composition")}

\* q lists some of the elements of order, in the order of order
InOrder(q, order) ==
    \E f \in [1..Len(q) -> 1..Len(order)] :
        /\ \A i \in 1..Len(q) : order[f[i]] = q[i]
        /\ \A i, j \in 1..Len(q) : i < j => f[i] < f[j]

C15_MalformedDefaults ==
    (/\ Ended
     /\ "malformed_classification" \in faults
     /\ faults \subseteq {"malformed_classification", "classification_parse_failed"})
    =>
        /\ query_type = "EXPLAIN_ONLY"
        /\ sandbox = <<>>
        /\ Last(events) = ResultEvent("final_response")

\* C16: when the classification is SQL_THEN_PY and the query generation
\* fails (the sql agent call fails, or no query can be extracted from its
\* text) and nothing else fails, the Python stage is skipped, the composer
\* runs and the stream ends with final_response.
C16_FailedGenerationDegrades ==
    (/\ Ended
     /\ query_type = "SQL_THEN_PY"
     /\ faults # {}
     /\ faults \subseteq {"sql_agent_failed", "sql_extract_failed", "no_sql_extracted"})
    =>
        /\ "python_agent" \notin Range(invoked)
        /\ "run_python" \notin Range(sandbox)
        /\ "composer" \in Range(invoked)
        /\ Last(events) = ResultEvent("final_response")

\* C17: when a write to the durable store fails and nothing else does, the
\* stream still carries the final_response event.
C17_PersistFailureStillFinal ==
    (Ended /\ faults = {"persist_failed"}) =>
        ResultEvent("final_response") \in Range(events)

\* C18: once the SQL stage (the Python stage) has run and the pipeline has
\* gone on, the stream holds exactly one sql_result (python_result) event
\* or error event of that stage.
C18_StageOutcomeVisible ==
    /\ (/\ StatusEvent("sql_execution") \in Range(events)
        /\ \/ StatusEvent("python_execution") \in Range(events)
           \/ StatusEvent("composition") \in Range(events))
       => Count(ResultEvent("sql_result"))
            + Count(ErrorEvent("SQL execution failed")) = 1
    /\ (/\ StatusEvent("python_execution") \in Range(events)
        /\ StatusEvent("composition") \in Range(events))
       => Count(ResultEvent("python_result"))
            + Count(ErrorEvent("Python execution failed")) = 1

\* C19: the sql agent is called and run_sql is run only if the
\* classification is SQL_ONLY or SQL_THEN_PY, and with such a
\* classification the SQL stage is entered and its agent called.
C19_QueryStageIff ==
    /\ ("sql_agent" \in Range(invoked) \/ "run_sql" \in Range(sandbox))
          => query_type \in {"SQL_ONLY", "SQL_THEN_PY"}
    /\ query_type \in {"SQL_ONLY", "SQL_THEN_PY"}
          => /\ StatusEvent("sql_generation") \in Range(events)
             /\ ppc \notin {"y_sql_generation", "cancelled"}
                   => "sql_agent" \in Range(invoked)

C19_Witness ==
    /\ Ended
    /\ query_type = "SQL_ONLY"
    /\ invoked = <<"orchestrator", "sql_agent", "composer">>
    /\ sandbox = <<"run_sql">>

\* C20: the python agent is called and run_python is run only if the
\* classification is PY_ONLY or SQL_THEN_PY and a sql_result was produced
\* before, and under these two conditions the Python stage is entered and
\* its agent called.
C20_CodeStageIff ==
    /\ ("python_agent" \in Range(invoked) \/ "run_python" \in Range(sandbox))
          => /\ query_type \in {"PY_ONLY", "SQL_THEN_PY"}
             /\ sql_result # "None"
             /\ ResultEvent("sql_result") \in Range(events)
    /\ (/\ query_type \in {"PY_ONLY", "SQL_THEN_PY"}
        /\ ResultEvent("sql_result") \in Range(events)
        /\ ppc \notin {"y_sql_result", "y_python_execution", "cancelled"})
          => /\ StatusEvent("python_execution") \in Range(events)
             /\ "python_agent" \in Range(invoked)

C20_Witness ==
    /\ Ended
    /\ query_type = "SQL_THEN_PY"
    /\ sandbox = <<"run_sql", "run_python">>

\* the failures of the profile load and of the gateway calls
PipelineFailures ==
    {"session_not_found", "store_read_failed", "orchestrator_failed",
     "sql_agent_failed", "python_agent_failed", "composer_failed"}

\* C21: a failed profile load or a failed gateway call of any stage puts
\* the error event at the end of the stream at once; from then on no
\* agent is called, no sandbox is run, nothing is stored and no event is
\* emitted, so the stream has no final_response and no stored message.
C21_FailStop ==
    [][/\ (faults' \cap PipelineFailures # {}) =>
             /\ Last(events') = ErrorEvent("Orchestration failed")
             /\ ResultEvent("final_response") \notin Range(events')
             /\ stored' = <<>>
       /\ (faults \cap PipelineFailures # {}) =>
             /\ UNCHANGED <<events, invoked, sandbox, stored>>
             /\ ppc' \in {"done", "cancelled"}]_vars

C21_Witness ==
    /\ Ended
    /\ faults = {"run_sql_failed", "composer_failed"}
    /\ invoked = <<"orchestrator", "sql_agent", "composer">>

\* the dangerous keywords that are whole words of a text, in any case
KeywordsIn(text) ==
    {k \in DANGEROUS_KEYWORDS : \E i \in 1..Len(text.words) : text.words[i] = k}

\* the text begins with the word SELECT, in any case, after white space
\* at most
BeginsWithSelect(text) ==
    /\ text.lead \in {"", " "}
    /\ Len(text.words) >= 1
    /\ text.words[1] = "SELECT"

\* C22: run_sql raises ValueError, before the download and the engine,
\* for every query text that holds a dangerous keyword as a whole word in
\* any letter case or does not begin with SELECT; the keyword named is one
\* that the text holds (DROP for DROP TABLE x); no such text is executed.
C22_RejectsUnsafe ==
    sqlbox.pc = "done" =>
        /\ (KeywordsIn(sqlbox.sql) # {} \/ ~BeginsWithSelect(sqlbox.sql)) =>
              /\ sqlbox.out.raised = "ValueError"
              /\ sqlbox.steps = <<>>
        /\ KeywordsIn(sqlbox.sql) # {} => sqlbox.out.keyword \in KeywordsIn(sqlbox.sql)
        /\ sqlbox.sql.words = <<"DROP", "TABLE", "X">> => sqlbox.out.keyword = "DROP"

C22_Witness ==
    /\ sqlbox.pc = "done"
    /\ sqlbox.sql = [lead |-> "", case |-> "mixed", words |-> <<"DROP", "TABLE", "X">>]
    /\ sqlbox.out.raised = "ValueError"
    /\ sqlbox.out.keyword = "DROP"
    /\ sqlbox.steps = <<>>

\* C23: when the engine returns R rows for a valid query, run_sql returns
\* min(R, limit_rows) rows without raising and its summary reports that
\* number of rows.
C23_RowLimit ==
    (sqlbox.pc = "done" /\ sqlbox.engine_rows >= 0) =>
        /\ sqlbox.out.raised = "None"
        /\ sqlbox.out.rows =
              (IF sqlbox.engine_rows <= sqlbox.limit_rows
               THEN sqlbox.engine_rows ELSE sqlbox.limit_rows)
        /\ sqlbox.out.summary_rows = sqlbox.out.rows

C23_Witness ==
    /\ sqlbox.pc = "done"
    /\ sqlbox.engine_rows = 3
    /\ sqlbox.limit_rows = 2
    /\ sqlbox.out.rows = 2

\* the blocked primitive a call node calls, "" if none: the callee is the
\* bare name of the primitive or the attribute of that name of the
\* built-ins namespace
CalledPrimitive(node) ==
    IF node.func.kind = "Name" /\ node.func.id \in DANGEROUS_BUILTINS
    THEN node.func.id
    ELSE IF /\ node.func.kind = "Attribute"
            /\ node.func.value = Name("__builtins__")
            /\ node.func.attr \in DANGEROUS_BUILTINS
         THEN node.func.attr
         ELSE ""

\* the violations present in a node and below it
RECURSIVE ViolationsIn(_)
ViolationsIn(node) ==
    CASE node.kind = "Import" ->
            {ValidationError("Import", node.names[i][1]) :
                i \in {j \in 1..Len(node.names) :
                          node.names[j][1] \notin ALLOWED_MODULES}}
      [] node.kind = "ImportFrom" ->
            IF node.module # <<>> /\ node.module[1] \notin ALLOWED_MODULES
            THEN {ValidationError("ImportFrom", node.module[1])} ELSE {}
      [] node.kind = "Call" ->
            (IF CalledPrimitive(node) # ""
             THEN {ValidationError("Call", CalledPrimitive(node))} ELSE {})
            \cup ViolationsIn(node.func)
      [] node.kind = "Attribute" ->
            (IF StartsWithUnderscore(node.attr)
             THEN {ValidationError("Attribute", node.attr)} ELSE {})
            \cup ViolationsIn(node.value)
      [] node.kind = "Expr" -> ViolationsIn(node.value)
      [] node.kind = "Compound" -> ViolationsIn(node.head) \cup ViolationsIn(node.body)
      [] OTHER -> {}

\* the violations present in a code text
Violations(code) == UNION {ViolationsIn(code.body[i]) : i \in 1..Len(code.body)}

\* C24: for code that parses, validation reports every violation present
\* at any depth (imports outside the allow-list, calls of blocked
\* primitives, underscore attributes), and code without any passes.
C24_ReportsEveryViolation ==
    (pybox.pc = "done" /\ pybox.caller = "pipeline" /\ pybox.code.syntax_ok) =>
        /\ Violations(pybox.code) \subseteq Range(pybox.out.errors)
        /\ Violations(pybox.code) = {} => pybox.out.raised # "ValueError"

\* C25: code that passes validation is run wrapped by
\* create_safe_python_wrapper in exactly one child process, whoever the
\* caller is; code that fails validation starts no child process.
C25_WrappedThenRun ==
    pybox.pc = "done" =>
        IF validate_python_code(pybox.code).is_valid
        THEN /\ pybox.executed = create_safe_python_wrapper(pybox.code)
             /\ pybox.children = 1
        ELSE /\ pybox.executed = NoCode
             /\ pybox.children = 0

\* C26: a child still running when timeout_s is over is killed and
\* run_python raises its time-out error; whenever run_python has returned
\* or raised, no child it started is running.
C26_NoChildLeft ==
    pybox.pc = "done" =>
        /\ pybox.running = 0
        /\ pybox.children <= 1
        /\ pybox.child = "timeout" =>
              /\ pybox.children = 1
              /\ pybox.out.raised = "RuntimeError"
              /\ pybox.out.msg = "Python execution timed out"

C26_Witness ==
    /\ pybox.pc = "done"
    /\ pybox.child = "timeout"
    /\ pybox.children = 1
    /\ pybox.running = 0
    /\ pybox.out.msg = "Python execution timed out"

\* C27: when the caller has closed the stream of a request whose
\* run_python child is running, the child ends by being aborted for that
\* cancellation.
C27_CancelAbortsChild ==
    [][\A r \in Tasks :
          (/\ req[r].closed
           /\ req[r].child = "running"
           /\ req'[r].child # "running")
          => req'[r].child = "aborted"]_vars

\* C28: while the sandbox call of one request is in progress, every other
\* request that is waiting to go on can take its next step.
C28_SandboxDoesNotBlock ==
    \A r, u \in Tasks :
        (/\ r # u
         /\ req[r].pc = "in_sandbox"
         /\ req[u].pc \in {"new", "awaiting_agent", "awaiting_composer"})
        => ENABLED ReqStep(u)

\* C29: the insights stored before stay where they are, every finished
\* run whose response had a finding has exactly one entry in the stored
\* list, and no other run has one.
C29_InsightsOnlyAppended ==
    /\ insights # <<>> /\ insights[1] = 0
    /\ \A r \in Tasks :
          Cardinality({i \in 1..Len(insights) : insights[i] = r})
             = (IF req[r].pc = "done" /\ req[r].finding THEN 1 ELSE 0)

\* C30: once the pool is exhausted no chat_completions call ends by an
\* IndexError of keys[current_key_index] inside mark_current_key_failed or
\* record_success.
C30_NoIndexFailure ==
    Exhausted(km) => \A t \in Tasks : result[t].raised # "IndexError"

\* C31: for code that passes validate_python_code, the code that
\* create_safe_python_wrapper makes of it passes too, so that a call of
\* POST /python/execute with such code starts the child process.
C31_WrapperPassesValidation ==
    (/\ pybox.pc = "done"
     /\ pybox.caller = "endpoint"
     /\ validate_python_code(pybox.code).is_valid)
    => /\ validate_python_code(create_safe_python_wrapper(pybox.code)).is_valid
       /\ pybox.out.raised # "ValueError"
       /\ pybox.children = 1

\* the failures of a sandbox run inside the SQL stage or the Python stage
SandboxFailures == {"run_sql_failed", "run_python_failed"}

\* the error event of a failed sandbox run
SandboxError(f) ==
    IF f = "run_sql_failed" THEN ErrorEvent("SQL execution failed")
                            ELSE ErrorEvent("Python execution failed")

\* the result variable of the stage of a sandbox run
StageResult(f) == IF f = "run_sql_failed" THEN sql_result ELSE python_result

\* what can go wrong after the Python stage, and the caller's close
LaterFailures ==
    {"composer_failed", "response_parse_failed", "persist_failed",
     "finding_test_failed", "cancelled"}

\* C32: a run_sql or run_python call that raises (rejected text, time-out,
\* failed execution) is not fatal: there is exactly one error event of
\* that stage, the stage's result stays None, and the composition status,
\* the composer call, the stored message and the final_response event
\* follow, unless the composer or the store fails.
C32_SandboxFailureNotFatal ==
    \A f \in SandboxFailures :
        f \in faults =>
            /\ Count(SandboxError(f)) = 1
            /\ StageResult(f) = "None"
            /\ ErrorEvent("Orchestration failed") \in Range(events)
                  => faults \cap LaterFailures # {}
            /\ (Ended /\ faults \cap LaterFailures = {}) =>
                  /\ Last(events) = ResultEvent("final_response")
                  /\ \E i, j \in 1..Len(events) :
                        /\ i < j
                        /\ events[i] = SandboxError(f)
                        /\ events[j] = StatusEvent("composition")
                  /\ Last(invoked) = "composer"
                  /\ "message" \in Range(stored)

C32_Witness ==
    /\ Ended
    /\ faults = {"run_python_failed"}
    /\ sql_result = "dict"
    /\ python_result = "None"
    /\ Count(ErrorEvent("Python execution failed")) = 1
    /\ Last(events) = ResultEvent("final_response")

\* C33: with the classification PY_ONLY the SQL stage does not run, so no
\* sql_result exists and the Python stage does not run either: neither the
\* sql agent nor the python agent is called, no sandbox run is made, and
\* the orchestrator_result event is followed at once by the composition
\* status, as with EXPLAIN_ONLY.
C33_PyOnlyGoesToCompose ==
    query_type \in {"PY_ONLY", "EXPLAIN_ONLY"} =>
        /\ Range(invoked) \subseteq {"orchestrator", "composer"}
        /\ sandbox = <<>>
        /\ sql_result = "None"
        /\ python_result = "None"
        /\ \E i \in 1..(Len(events) - 1) :
              /\ events[i] = ResultEvent("orchestrator_result")
              /\ events[i + 1] = StatusEvent("composition")
        /\ \A i \in 1..Len(events) :
              events[i].type = "status" =>
                 events[i].stage \in {"loading", "orchestrating", "composition"}

C33_Witness ==
    /\ Ended
    /\ query_type = "PY_ONLY"
    /\ invoked = <<"orchestrator", "composer">>
    /\ sandbox = <<>>
    /\ Last(events) = ResultEvent("final_response")

\* C34: when BYTEZ_API_KEY_1 is not set the stream of POST /chat/stream
\* holds exactly one error event, and when the iteration of stream_chat
\* raises inside event_generator the stream ends with an error event.
C34_ErrorEventOnEndpointFailure ==
    /\ (/\ route.pc \in {"closed", "broken"}
        /\ route.generator = "error_generator")
          => /\ Len(events) = 1
             /\ events[1].type = "error"
    /\ (/\ route.pc = "streaming"
        /\ Ended
        /\ "encode_failed" \in faults)
          => /\ events # <<>>
             /\ Last(events).type = "error"

\* C35: current_key_index is between 0 and len(keys) in every state, and
\* a rotate_key call on an exhausted pool leaves the index, failed_keys
\* and the two counters as they were.
C35_IndexBounded ==
    [][/\ km'.current_key_index \in 0..Len(km'.keys)
       /\ (Exhausted(km) /\ ret'.op = "rotate_key") =>
             /\ km'.current_key_index = km.current_key_index
             /\ km'.failed_keys = km.failed_keys
             /\ km'.usage_count = km.usage_count
             /\ km'.error_count = km.error_count]_vars

\* C36: what the child process did decides the outcome of run_python: a
\* status other than 0 raises RuntimeError with the child's stderr in its
\* message; status 0 with JSON on stdout returns the parsed value; status
\* 0 with other text returns that text under "output"; status 0 with
\* nothing but white space on stdout returns {}.
C36_ChildOutcomeToResult ==
    (pybox.pc = "done" /\ pybox.children = 1 /\ pybox.child # "timeout") =>
        CASE pybox.child = "exit_nonzero" ->
                /\ pybox.out.raised = "RuntimeError"
                /\ pybox.out.msg = "Python execution failed: Execution failed: stderr"
                /\ pybox.out.results = "None"
          [] pybox.child = "exit_0_json" ->
                /\ pybox.out.raised = "None"
                /\ pybox.out.results = "json.loads(output)"
          [] pybox.child = "exit_0_text" ->
                /\ pybox.out.raised = "None"
                /\ pybox.out.results = "{'output': output}"
          [] pybox.child \in {"exit_0_blank", "exit_0_empty"} ->
                /\ pybox.out.raised = "None"
                /\ pybox.out.results = "{}"

C36_Witness ==
    /\ pybox.pc = "done"
    /\ pybox.child = "exit_0_text"
    /\ pybox.children = 1
    /\ pybox.out.raised = "None"
    /\ pybox.out.results = "{'output': output}"

\* C37: a request that fails without a response (httpx.RequestError) ends
\* the chat_completions call at once with RuntimeError("Bytez API request
\* failed"): no further request is sent, the key is not marked, the pool
\* is not rotated, and index, failed_keys and the counters stay as they
\* were.
C37_TransportFailureLeavesPool ==
    [][\A t \in Tasks :
          (/\ pc[t] = "awaiting_post"
           /\ result'[t] = Raised("RuntimeError", "Bytez API request failed"))
          => /\ pc'[t] = "done"
             /\ sent'[t] = sent[t]
             /\ retry_count'[t] = retry_count[t]
             /\ km'.current_key_index = km.current_key_index
             /\ km'.failed_keys = km.failed_keys
             /\ km'.usage_count = km.usage_count
             /\ km'.error_count = km.error_count
             /\ km'.last_rotation_event = km.last_rotation_event
             /\ client' = client]_vars

C37_Witness ==
    \E t \in Tasks :
        /\ pc[t] = "done"
        /\ result[t] = Raised("RuntimeError", "Bytez API request failed")
        /\ log[t] = <<401>>
        /\ Len(sent[t]) = 2
        /\ km.current_key_index = 1
        /\ Cardinality(km.failed_keys) = 1

\* the sentinel line, and the first place it has in a body (one past the
\* end when it has none)
IsSentinel(line) == line = [prefix |-> "data: ", rest |-> "[DONE]"]
SentinelAt(lines) ==
    IF \E i \in 1..Len(lines) : IsSentinel(lines[i])
    THEN CHOOSE i \in 1..Len(lines) :
            /\ IsSentinel(lines[i])
            /\ \A j \in 1..(i - 1) : ~IsSentinel(lines[j])
    ELSE Len(lines) + 1

\* a data line that holds well-formed JSON
IsChunkLine(line) == line.prefix = "data: " /\ line.rest \in {"1", "2"}

\* the chunks of the chunk lines before the sentinel, in their order
ExpectedChunks(lines) ==
    LET sel == SelectSeq(SubSeq(lines, 1, SentinelAt(lines) - 1), IsChunkLine)
    IN [i \in 1..Len(sel) |-> IF sel[i].rest = "1" THEN 1 ELSE 2]

\* C38: the chunks yielded so far are, in order, the chunks of the first
\* well-formed data lines before the "data: [DONE]" line, one for each;
\* when the generator has ended all of them have been yielded and nothing
\* else, whatever lines follow the sentinel, and asking again yields
\* nothing more.
C38_ChunksInOrderUntilDone ==
    stream.pc # "new" =>
        LET expected == ExpectedChunks(stream.lines)
        IN /\ Len(stream.chunks) <= Len(expected)
           /\ stream.chunks = SubSeq(expected, 1, Len(stream.chunks))
           /\ stream.pc = "exhausted" =>
                 /\ stream.chunks = expected
                 /\ stream.pos = SentinelAt(stream.lines)
           /\ stream.pc = "suspended" => stream.chunks # <<>>

C38_Witness ==
    /\ stream.pc = "exhausted"
    /\ stream.again
    /\ stream.lines = <<[prefix |-> "data: ", rest |-> "2"],
                        [prefix |-> "data: ", rest |-> "[DONE]"],
                        [prefix |-> "data: ", rest |-> "1"]>>
    /\ stream.chunks = <<2>>

\* a temp file was created and has not been removed
TmpLeft(steps) ==
    /\ "create_tmp" \in Range(steps)
    /\ "unlink" \notin Range(steps)

\* C39: when run_sql or run_python has returned or raised, the temp file
\* it created has been removed, and a text rejected by the validation has
\* created none.
C39_NoTempFileLeft ==
    /\ sqlbox.pc = "done" =>
          /\ ~TmpLeft(sqlbox.steps)
          /\ sqlbox.out.raised = "ValueError"
                => "create_tmp" \notin Range(sqlbox.steps)
    /\ pybox.pc = "done" =>
          /\ ~TmpLeft(pybox.steps)
          /\ pybox.out.raised = "ValueError"
                => "create_tmp" \notin Range(pybox.steps)

====
